---- MODULE Spec2Model ----
(***************************************************************************)
(* Model of great_expectations/datasource/fluent/interfaces.py: the sorter *)
(* shorthand parser (parse_order_by_sorters, _sorter_from_list,            *)
(* _sorter_from_str), DataAsset.add_sorters, DataAsset.sort_batches with   *)
(* its comparison function, and Batch._set_id.                             *)
(*                                                                         *)
(* Python values are modelled as follows.                                  *)
(*   str        a sequence of one-character strings, "" is << >>           *)
(*   Sorter     [type |-> "Sorter", key |-> str, reverse |-> BOOLEAN]      *)
(*   str item   [type |-> "str", value |-> str]                            *)
(*   dict item  [type |-> "dict", items |-> a function whose domain is a   *)
(*               subset of {"key", "reverse"}]                             *)
(*   None / v   in batch metadata: << >> is None, <<v>> is the value v     *)
(*   a call     [raised |-> the exception's name or "None", value |-> ...] *)
(***************************************************************************)
EXTENDS Integers, Sequences, FiniteSets, TLC

VARIABLES
    pc,             \* the operation that ran last ("start" before any)
    sorters,        \* argument of the last parse_order_by_sorters / add_sorters
    order_by,       \* DataAsset.order_by
    order_by_in,    \* DataAsset.order_by before the last add_sorters call
    result,         \* return value of the last parse_order_by_sorters call
    raised,         \* exception the last call raised, "None" if it returned
    batch_list,     \* the list handed to sort_batches (sorted in place)
    batch_list_in,  \* batch_list as it was before the last sort_batches call
    calls,          \* number of sort_batches calls made on batch_list
    values,         \* the values a Batch is constructed from (_set_id's argument)
    batch_id,       \* Batch.id as set by the _set_id root validator
    passes,         \* the list.sort passes the last sort_batches call ran
    assets,         \* Datasource.assets: its items in the dict's iteration order
    assets_in,      \* Datasource.assets before the last add_asset call
    added,          \* every add_asset call made so far, with its outcome
    asset_name,     \* argument of the last get_asset call
    message         \* the names the last LookupError's message lists

datasource_vars == <<assets, assets_in, added, asset_name, message>>

vars == <<pc, sorters, order_by, order_by_in, result, raised,
          batch_list, batch_list_in, calls, values, batch_id, passes,
          datasource_vars>>

-----------------------------------------------------------------------------
(* Bounds of the model.                                                    *)

MaxLen == 2

Idle == << >>

DatasourceIdle ==
    /\ assets = Idle /\ assets_in = Idle /\ added = Idle
    /\ asset_name = Idle /\ message = Idle

Returned(v) == [raised |-> "None", value |-> v]

Raise(e) == [raised |-> e, value |-> << >>]

-----------------------------------------------------------------------------
(* Sorter and the shorthand forms of a SortersDefinition.                  *)

Sorter(key, reverse) == [type |-> "Sorter", key |-> key, reverse |-> reverse]

StrItem(s) == [type |-> "str", value |-> s]

DictItem(d) == [type |-> "dict", items |-> d]

isinstance(x, t) == x.type = t

\* _is_sorter_list: true for the empty list and when the FIRST element is a Sorter.
is_sorter_list(l) == Len(l) = 0 \/ isinstance(l[1], "Sorter")

\* _is_str_sorter_list: true when the list is non-empty and its FIRST element is a str.
is_str_sorter_list(l) == Len(l) > 0 /\ isinstance(l[1], "str")

\* sort_key[1:]
Slice1(s) == IF Len(s) = 0 THEN << >> ELSE SubSeq(s, 2, Len(s))

\* A faulty _sorter_from_str: it strips every sign, not only the leading one.
sorter_from_str_drop_all_signs(sort_key) ==
    IF Len(sort_key) = 0 THEN Raise("IndexError")
    ELSE IF sort_key[1] = "-" THEN
        Returned(Sorter(SelectSeq(sort_key, LAMBDA c : c \notin {"+", "-"}), TRUE))
    ELSE IF sort_key[1] = "+" THEN
        Returned(Sorter(SelectSeq(sort_key, LAMBDA c : c \notin {"+", "-"}), FALSE))
    ELSE Returned(Sorter(sort_key, FALSE))

\* _sorter_from_str applied to a str.  sort_key[0] raises IndexError on "".
sorter_from_str(sort_key) ==
    IF Len(sort_key) = 0 THEN Raise("IndexError")
    ELSE IF sort_key[1] = "-" THEN Returned(Sorter(Slice1(sort_key), TRUE))
    ELSE IF sort_key[1] = "+" THEN Returned(Sorter(Slice1(sort_key), FALSE))
    ELSE Returned(Sorter(sort_key, FALSE))

\* _sorter_from_str applied to whatever element the str fast path hands it:
\* a Sorter is not subscriptable (TypeError), a dict has no entry 0 (KeyError).
sorter_from_str_any(x) ==
    IF isinstance(x, "str") THEN sorter_from_str(x.value)
    ELSE IF isinstance(x, "Sorter") THEN Raise("TypeError")
    ELSE Raise("KeyError")

\* The list comprehension of _sorter_from_list: the first exception ends it.
RECURSIVE sorter_from_str_each(_, _, _)
sorter_from_str_each(l, idx, acc) ==
    IF idx > Len(l) THEN Returned(acc)
    ELSE LET r == sorter_from_str_any(l[idx])
         IN  IF r.raised # "None" THEN Raise(r.raised)
             ELSE sorter_from_str_each(l, idx + 1, Append(acc, r.value))

sorter_from_list(l) ==
    IF is_sorter_list(l) THEN Returned(l)
    ELSE IF is_str_sorter_list(l) THEN sorter_from_str_each(l, 1, << >>)
    ELSE Raise("ValueError")

\* sorter.get(name) is None when the entry is absent; None, "" and False are falsy.
DictHas(d, name) == name \in DOMAIN d

KeyTruthy(d) == DictHas(d, "key") /\ Len(d["key"]) > 0

ReverseTruthy(d) == DictHas(d, "reverse") /\ d["reverse"]

\* A faulty loop body: the dict's "reverse" entry is ignored.
parse_element_ignore_reverse(sorter) ==
    IF isinstance(sorter, "str") THEN
        IF Len(sorter.value) = 0 THEN Raise("ValueError")
        ELSE sorter_from_str(sorter.value)
    ELSE IF isinstance(sorter, "dict") THEN
        IF KeyTruthy(sorter.items) THEN Returned(Sorter(sorter.items["key"], FALSE))
        ELSE Raise("ValueError")
    ELSE Returned(sorter)

\* A faulty loop body: a Sorter is rebuilt from its key alone.
parse_element_rebuild_sorter(sorter) ==
    IF isinstance(sorter, "str") THEN
        IF Len(sorter.value) = 0 THEN Raise("ValueError")
        ELSE sorter_from_str(sorter.value)
    ELSE IF isinstance(sorter, "dict") THEN
        IF KeyTruthy(sorter.items) /\ ReverseTruthy(sorter.items) THEN
            Returned(Sorter(sorter.items["key"], sorter.items["reverse"]))
        ELSE IF KeyTruthy(sorter.items) THEN
            Returned(Sorter(sorter.items["key"], FALSE))
        ELSE Raise("ValueError")
    ELSE Returned(Sorter(sorter.key, FALSE))

\* One iteration of the loop of parse_order_by_sorters.
parse_element(sorter) ==
    IF isinstance(sorter, "str") THEN
        IF Len(sorter.value) = 0 THEN Raise("ValueError")
        ELSE sorter_from_str(sorter.value)
    ELSE IF isinstance(sorter, "dict") THEN
        IF KeyTruthy(sorter.items) /\ ReverseTruthy(sorter.items) THEN
            Returned(Sorter(sorter.items["key"], sorter.items["reverse"]))
        ELSE IF KeyTruthy(sorter.items) THEN
            Returned(Sorter(sorter.items["key"], FALSE))
        ELSE Raise("ValueError")
    ELSE Returned(sorter)

RECURSIVE parse_loop(_, _, _)
parse_loop(l, idx, order_by_sorters) ==
    IF idx > Len(l) THEN Returned(order_by_sorters)
    ELSE LET r == parse_element(l[idx])
         IN  IF r.raised # "None" THEN Raise(r.raised)
             ELSE parse_loop(l, idx + 1, Append(order_by_sorters, r.value))

parse_order_by_sorters(l) == parse_loop(l, 1, << >>)

-----------------------------------------------------------------------------
(* Inputs of the parser.                                                   *)

Keys == {<<"a">>, <<"b">>}

SorterValues == {Sorter(k, r) : k \in Keys, r \in BOOLEAN}

StrValues == {<< >>, <<"a">>, <<"-", "b">>, <<"+", "a">>, <<"-">>, <<"+", "-", "b">>}

DictValues ==
    {<< >>,
     [key |-> <<"a">>],
     [key |-> <<"b">>, reverse |-> TRUE],
     [key |-> <<"a">>, reverse |-> FALSE],
     [key |-> << >>, reverse |-> TRUE],
     [reverse |-> TRUE]}

Elements ==
    SorterValues \cup {StrItem(s) : s \in StrValues} \cup {DictItem(d) : d \in DictValues}

SeqsUpTo(S, n) == UNION {[1..m -> S] : m \in 0..n}

SortersDefinitions == SeqsUpTo(Elements, MaxLen)

\* The lists DataAsset.add_sorters is called with in the asset's specification.
AssetElements ==
    {Sorter(<<"a">>, FALSE), Sorter(<<"b">>, TRUE),
     StrItem(<<"a">>), StrItem(<<"-", "b">>), StrItem(<< >>), StrItem(<<"-">>),
     DictItem([key |-> <<"a">>]), DictItem([key |-> <<"b">>, reverse |-> TRUE])}

AssetSortersDefinitions == SeqsUpTo(AssetElements, MaxLen)

-----------------------------------------------------------------------------
(* Datasource.parse_order_by_sorters as a pure function: the initial state *)
(* draws its argument, ParseOrderBySorters applies it, ParseAgain applies  *)
(* it to what it returned.                                                 *)

InitParse ==
    /\ pc = "start"
    /\ sorters \in SortersDefinitions
    /\ order_by = Idle /\ order_by_in = Idle
    /\ result = Idle /\ raised = "None"
    /\ batch_list = Idle /\ batch_list_in = Idle /\ calls = 0
    /\ values = Idle /\ batch_id = Idle
    /\ passes = Idle /\ DatasourceIdle

ParseOrderBySorters ==
    /\ pc = "start"
    /\ LET r == parse_order_by_sorters(sorters)
       IN  /\ result' = r.value
           /\ raised' = r.raised
    /\ pc' = "parse_order_by_sorters"
    /\ UNCHANGED <<sorters, order_by, order_by_in, batch_list, batch_list_in,
                   calls, values, batch_id,
                   passes, datasource_vars>>

ParseAgain ==
    /\ pc = "parse_order_by_sorters"
    /\ raised = "None"
    /\ sorters' = result
    /\ LET r == parse_order_by_sorters(result)
       IN  /\ result' = r.value
           /\ raised' = r.raised
    /\ pc' = "parse_again"
    /\ UNCHANGED <<order_by, order_by_in, batch_list, batch_list_in,
                   calls, values, batch_id,
                   passes, datasource_vars>>

NextParse == ParseOrderBySorters \/ ParseAgain

SpecParse == InitParse /\ [][NextParse]_vars

-----------------------------------------------------------------------------
(* DataAsset.add_sorters on one asset, called any number of times.         *)

InitAsset ==
    /\ pc = "start"
    /\ sorters = Idle
    /\ order_by = << >> /\ order_by_in = << >>
    /\ result = Idle /\ raised = "None"
    /\ batch_list = Idle /\ batch_list_in = Idle /\ calls = 0
    /\ values = Idle /\ batch_id = Idle
    /\ passes = Idle /\ DatasourceIdle

\* self.order_by = _sorter_from_list(sorters): the assignment happens only
\* when _sorter_from_list returned.
add_sorters(arg) ==
    /\ sorters' = arg
    /\ order_by_in' = order_by
    /\ LET r == sorter_from_list(arg)
       IN  /\ raised' = r.raised
           /\ order_by' = IF r.raised = "None" THEN r.value ELSE order_by
    /\ pc' = "add_sorters"
    /\ UNCHANGED <<result, batch_list, batch_list_in, calls, values, batch_id,
                   passes, datasource_vars>>

AddSorters == \E arg \in AssetSortersDefinitions : add_sorters(arg)

NextAsset == AddSorters

SpecAsset == InitAsset /\ [][NextAsset]_vars

-----------------------------------------------------------------------------
(* Claims about the parser and add_sorters.                                *)

IsSorterList(l) == \A i \in 1..Len(l) : isinstance(l[i], "Sorter")

\* C4: add_sorters behaves like element-by-element parsing with
\* parse_order_by_sorters on every heterogeneous list: the same canonical
\* order_by when parsing succeeds, the invalid-sorter error exactly when
\* parsing raises it.
C4_AddSortersEqualsParse ==
    pc = "add_sorters" =>
        LET p == parse_order_by_sorters(sorters)
        IN  /\ p.raised = "None" => (raised = "None" /\ order_by = p.value)
            /\ (raised = "ValueError") <=> (p.raised = "ValueError")

\* C5: a string element "" makes the call raise ValueError; otherwise the
\* Sorter at the same position has reverse = TRUE exactly when the string
\* starts with "-", and its key is the string with exactly one leading sign
\* removed, or the string itself when it starts with no sign.
C5_StringShorthand ==
    pc = "parse_order_by_sorters" =>
        \A i \in 1..Len(sorters) :
            isinstance(sorters[i], "str") =>
                LET s == sorters[i].value
                IN  IF s = << >> THEN raised = "ValueError"
                    ELSE raised = "None" =>
                        /\ Len(result) = Len(sorters)
                        /\ isinstance(result[i], "Sorter")
                        /\ result[i].reverse = (Head(s) = "-")
                        /\ result[i].key =
                             IF Head(s) \in {"+", "-"} THEN Tail(s) ELSE s

C5_Witness ==
    /\ pc = "parse_order_by_sorters"
    /\ raised = "None"
    /\ Len(sorters) = 2
    /\ sorters[2] = StrItem(<<"+", "-", "b">>)
    /\ sorters[1] = StrItem(<<"-", "b">>)
    /\ result = <<Sorter(<<"b">>, TRUE), Sorter(<<"-", "b">>, FALSE)>>

\* C6: a dict element without a "key" entry, or with a falsy one, makes the
\* call raise ValueError; otherwise the Sorter at the same position has the
\* dict's key, and the dict's reverse when present, FALSE when absent.
C6_DictShorthand ==
    pc = "parse_order_by_sorters" =>
        \A i \in 1..Len(sorters) :
            isinstance(sorters[i], "dict") =>
                LET d == sorters[i].items
                IN  IF "key" \notin DOMAIN d \/ d["key"] = << >>
                    THEN raised = "ValueError"
                    ELSE raised = "None" =>
                        /\ Len(result) = Len(sorters)
                        /\ isinstance(result[i], "Sorter")
                        /\ result[i].key = d["key"]
                        /\ result[i].reverse =
                             IF "reverse" \in DOMAIN d THEN d["reverse"] ELSE FALSE

C6_Witness ==
    /\ pc = "parse_order_by_sorters"
    /\ raised = "None"
    /\ Len(sorters) = 2
    /\ sorters[1] = DictItem([key |-> <<"a">>])
    /\ sorters[2] = DictItem([key |-> <<"b">>, reverse |-> TRUE])
    /\ result = <<Sorter(<<"a">>, FALSE), Sorter(<<"b">>, TRUE)>>

\* C7: parsing a list of Sorter values returns it unchanged, and parsing the
\* result of a successful parse returns that result unchanged.
C7_ParseRoundTrip ==
    /\ (pc \in {"parse_order_by_sorters", "parse_again"} /\ IsSorterList(sorters)) =>
           (raised = "None" /\ result = sorters)
    /\ pc = "parse_again" => (raised = "None" /\ result = sorters)

C7_Witness ==
    /\ pc = "parse_again"
    /\ Len(sorters) = 2
    /\ sorters[1].reverse /\ ~sorters[2].reverse
    /\ result = sorters

IsShorthand(x) == isinstance(x, "str") \/ isinstance(x, "dict")

\* C12: every Sorter that parse_order_by_sorters returns, or add_sorters
\* stores in order_by, for a string or dict shorthand has a non-empty key: a
\* shorthand that names no key, such as "+" or "-", is rejected.
C12_NonEmptyKey ==
    /\ (pc = "parse_order_by_sorters" /\ raised = "None") =>
           \A i \in 1..Len(sorters) :
               IsShorthand(sorters[i]) => result[i].key # << >>
    /\ (pc = "add_sorters" /\ raised = "None") =>
           \A i \in 1..Len(sorters) :
               (IsShorthand(sorters[i]) /\ isinstance(order_by[i], "Sorter")) =>
                   order_by[i].key # << >>

\* C10: after an add_sorters call that returned, order_by is the canonical
\* Sorter sequence of that call's argument; a call that raised left order_by
\* as it was before the call.
C10_ReplaceAllCanonical ==
    pc = "add_sorters" =>
        IF raised = "None"
        THEN /\ parse_order_by_sorters(sorters).raised = "None"
             /\ order_by = parse_order_by_sorters(sorters).value
        ELSE order_by = order_by_in

-----------------------------------------------------------------------------
(* DataAsset.sort_batches.                                                 *)
(* A Batch is [data |-> its data handle, metadata |-> a function from the  *)
(* metadata keys it has to << >> (None) or <<v>>].                         *)

None == << >>

Reverse(l) == [i \in 1..Len(l) |-> l[Len(l) + 1 - i]]

\* _compare_function of _sort_batches_with_none_metadata_values(key):
\* a.metadata[key] and b.metadata[key] raise KeyError when the key is absent.
compare_function(key, a, b) ==
    IF key \notin DOMAIN a.metadata \/ key \notin DOMAIN b.metadata
    THEN Raise("KeyError")
    ELSE LET x == a.metadata[key]
             y == b.metadata[key]
         IN  IF x # None /\ y # None THEN
                 IF x[1] < y[1] THEN Returned(-1)
                 ELSE IF x[1] > y[1] THEN Returned(1)
                 ELSE Returned(0)
             ELSE IF x = None /\ y = None THEN Returned(0)
             ELSE IF x = None THEN Returned(-1)
             ELSE Returned(1)

\* Where pivot goes in the sorted prefix l[1..j]: after the last element it
\* is not less than.  K(a) < K(b) of functools.cmp_to_key is cmp(a, b) < 0.
RECURSIVE InsertAfter(_, _, _, _)
InsertAfter(l, key, pivot, j) ==
    IF j = 0 THEN Returned(0)
    ELSE LET c == compare_function(key, pivot, l[j])
         IN  IF c.raised # "None" THEN Raise(c.raised)
             ELSE IF c.value < 0 THEN InsertAfter(l, key, pivot, j - 1)
             ELSE Returned(j)

\* The stable insertion sort list.sort runs on a short list; a comparison
\* that raises leaves the list as the insertions made so far left it.
RECURSIVE InsertionSort(_, _, _)
InsertionSort(l, key, i) ==
    IF i > Len(l) THEN [raised |-> "None", list |-> l]
    ELSE LET p == InsertAfter(l, key, l[i], i - 1)
         IN  IF p.raised # "None" THEN [raised |-> p.raised, list |-> l]
             ELSE InsertionSort(
                      SubSeq(l, 1, p.value) \o <<l[i]>> \o SubSeq(l, p.value + 1, i - 1)
                          \o SubSeq(l, i + 1, Len(l)),
                      key, i + 1)

\* A faulty reverse sort: sorted forward and then reversed, which turns the
\* input order of equal elements around.
ListSortReverseAfter(l, key, reverse) ==
    LET r == InsertionSort(l, key, 2)
    IN  [raised |-> r.raised, list |-> IF reverse THEN Reverse(r.list) ELSE r.list]

\* batch_list.sort(key=functools.cmp_to_key(cmp), reverse=reverse): a reverse
\* sort reverses the list, sorts it forward and reverses it again (also when
\* a comparison raised), which keeps equal elements in their input order.
ListSort(l, key, reverse) ==
    LET r == InsertionSort(IF reverse THEN Reverse(l) ELSE l, key, 2)
    IN  [raised |-> r.raised, list |-> IF reverse THEN Reverse(r.list) ELSE r.list]

\* One pass of the loop, as recorded in the call's outcome.
Pass(idx, r) == [sorter |-> idx, raised |-> r.raised]

\* A faulty loop: the passes run from the first sorter to the last.
RECURSIVE sort_batches_forward(_, _, _)
sort_batches_forward(order, idx, l) ==
    IF idx = 0 THEN [raised |-> "None", list |-> l, passes |-> << >>]
    ELSE LET k == Len(order) + 1 - idx
             r == ListSort(l, order[k].key, order[k].reverse)
         IN  IF r.raised # "None"
             THEN [raised |-> "KeyError", list |-> r.list, passes |-> <<Pass(k, r)>>]
             ELSE [sort_batches_forward(order, idx - 1, r.list)
                       EXCEPT !.passes = <<Pass(k, r)>> \o @]

\* A faulty loop: a KeyError of a pass is swallowed and the loop goes on.
RECURSIVE sort_batches_swallow(_, _, _)
sort_batches_swallow(order, idx, l) ==
    IF idx = 0 THEN [raised |-> "None", list |-> l, passes |-> << >>]
    ELSE LET r == ListSort(l, order[idx].key, order[idx].reverse)
         IN  [sort_batches_swallow(order, idx - 1, r.list)
                  EXCEPT !.passes = <<Pass(idx, r)>> \o @]

\* for sorter in reversed(self.order_by): the pass of order_by[idx], then the
\* passes of the sorters before it; a KeyError ends the call.
RECURSIVE sort_batches_from(_, _, _)
sort_batches_from(order, idx, l) ==
    IF idx = 0 THEN [raised |-> "None", list |-> l, passes |-> << >>]
    ELSE LET r == ListSort(l, order[idx].key, order[idx].reverse)
         IN  IF r.raised # "None"
             THEN [raised |-> "KeyError", list |-> r.list, passes |-> <<Pass(idx, r)>>]
             ELSE [sort_batches_from(order, idx - 1, r.list)
                       EXCEPT !.passes = <<Pass(idx, r)>> \o @]

sort_batches(order, l) == sort_batches_from(order, Len(order), l)

MaxBatches == 3

MaxSorters == 2

MaxCalls == 2

Metadatas ==
    {[k \in Keys |-> IF k = <<"a">> THEN <<0>> ELSE <<0>>],
     [k \in Keys |-> IF k = <<"a">> THEN <<0>> ELSE <<1>>],
     [k \in Keys |-> IF k = <<"a">> THEN <<1>> ELSE <<0>>],
     [k \in Keys |-> IF k = <<"a">> THEN None ELSE <<0>>],
     [k \in Keys |-> IF k = <<"a">> THEN <<1>> ELSE None],
     [k \in {<<"a">>} |-> <<0>>]}

BatchLists ==
    UNION {{[i \in 1..n |-> [data |-> i, metadata |-> ms[i]]] : ms \in [1..n -> Metadatas]}
               : n \in 0..MaxBatches}

InitSort ==
    /\ pc = "start"
    /\ sorters = Idle
    /\ order_by \in SeqsUpTo(SorterValues, MaxSorters)
    /\ order_by_in = Idle
    /\ result = Idle /\ raised = "None"
    /\ batch_list \in BatchLists
    /\ batch_list_in = batch_list
    /\ calls = 0
    /\ values = Idle /\ batch_id = Idle
    /\ passes = Idle /\ DatasourceIdle

SortBatches ==
    /\ calls < MaxCalls
    /\ batch_list_in' = batch_list
    /\ LET r == sort_batches(order_by, batch_list)
       IN  /\ raised' = r.raised
           /\ batch_list' = r.list
           /\ passes' = r.passes
    /\ calls' = calls + 1
    /\ pc' = "sort_batches"
    /\ UNCHANGED <<sorters, order_by, order_by_in, result, values, batch_id,
                   datasource_vars>>

NextSort == SortBatches

SpecSort == InitSort /\ [][NextSort]_vars

-----------------------------------------------------------------------------
(* Claims about sort_batches.                                              *)

SorterKeys == {order_by[k].key : k \in 1..Len(order_by)}

HasKey(b, key) == key \in DOMAIN b.metadata

AllHaveKeys(l) == \A i \in 1..Len(l) : \A key \in SorterKeys : HasKey(l[i], key)

AllNonNull(l) ==
    \A i \in 1..Len(l) : \A key \in SorterKeys :
        HasKey(l[i], key) /\ l[i].metadata[key] # None

PositionIn(l, b) == CHOOSE p \in 1..Len(l) : l[p] = b

IsPermutation(l, m) ==
    /\ Len(l) = Len(m)
    /\ \A i \in 1..Len(l) : \E j \in 1..Len(m) : l[i] = m[j]
    /\ \A i, j \in 1..Len(l) : l[i] = l[j] => i = j

\* x comes before y in the lexicographic order of order_by, ties by input order.
LexBefore(x, y) ==
    LET differ == {k \in 1..Len(order_by) :
                      x.metadata[order_by[k].key] # y.metadata[order_by[k].key]}
    IN  IF differ = {}
        THEN PositionIn(batch_list_in, x) < PositionIn(batch_list_in, y)
        ELSE LET k  == CHOOSE d \in differ : \A e \in differ : d <= e
                 vx == x.metadata[order_by[k].key][1]
                 vy == y.metadata[order_by[k].key][1]
             IN  IF order_by[k].reverse THEN vx > vy ELSE vx < vy

\* C1: when every batch has a non-null value for every sorter key,
\* sort_batches leaves the list in lexicographic order of order_by: of two
\* batches the earlier one wins on the first sorter whose values differ
\* (ascending, or descending when reverse), and batches equal on every
\* sorter key keep their input order.
C1_LexicographicOrder ==
    (pc = "sort_batches" /\ AllNonNull(batch_list_in)) =>
        /\ raised = "None"
        /\ IsPermutation(batch_list, batch_list_in)
        /\ \A i, j \in 1..Len(batch_list) :
               i < j => LexBefore(batch_list[i], batch_list[j])

C1_Witness ==
    /\ pc = "sort_batches" /\ calls = 1
    /\ AllNonNull(batch_list_in)
    /\ order_by = <<Sorter(<<"a">>, TRUE), Sorter(<<"b">>, FALSE)>>
    /\ Len(batch_list) = 3
    /\ batch_list # batch_list_in
    /\ batch_list[1].metadata = batch_list[2].metadata
    /\ batch_list[1].data < batch_list[2].data
    /\ batch_list[3].metadata[<<"a">>] # batch_list[1].metadata[<<"a">>]

\* C2: with order_by = [Sorter(k, reverse)] and key k in every batch, every
\* batch whose value for k is None precedes every batch whose value is not
\* None, whether reverse is false or true.
C2_NullsFirst ==
    (pc = "sort_batches" /\ Len(order_by) = 1 /\ AllHaveKeys(batch_list_in)) =>
        \A i, j \in 1..Len(batch_list) :
            (/\ batch_list[i].metadata[order_by[1].key] = None
             /\ batch_list[j].metadata[order_by[1].key] # None) => i < j

\* C3: when a sorter's key is absent from the metadata of at least one batch
\* of the list, sort_batches raises KeyError and never returns normally.
C3_MissingKeyRaises ==
    (/\ pc = "sort_batches"
     /\ \E i \in 1..Len(batch_list_in) : \E key \in SorterKeys :
            ~HasKey(batch_list_in[i], key)) => raised = "KeyError"

\* C13: sort_batches never adds, drops or duplicates a batch, whether it
\* returns or raises: the list afterwards is a permutation of the list
\* before; the passes run from the last sorter down; when a pass raises, the
\* call raises KeyError and that pass is the last one run, and the call
\* raises only then.
C13_PermutationAndAbort ==
    pc = "sort_batches" =>
        /\ IsPermutation(batch_list, batch_list_in)
        /\ \A p \in 1..Len(passes) : passes[p].sorter = Len(order_by) + 1 - p
        /\ \A p \in 1..Len(passes) :
               passes[p].raised # "None" => (raised = "KeyError" /\ p = Len(passes))
        /\ raised # "None" =>
               (Len(passes) > 0 /\ passes[Len(passes)].raised # "None")
        /\ raised = "None" => Len(passes) = Len(order_by)

C13_Witness ==
    /\ pc = "sort_batches" /\ calls = 1
    /\ raised = "KeyError"
    /\ Len(order_by) = 2
    /\ Len(passes) = 2
    /\ passes[2] = [sorter |-> 1, raised |-> "KeyError"]
    /\ Len(batch_list) = 3
    /\ batch_list # batch_list_in

\* C9: sorting the list a first sort_batches produced again, with the same
\* order_by, leaves it exactly as it was (batches carry every sorter key).
C9_Idempotent ==
    (pc = "sort_batches" /\ calls >= 2 /\ AllHaveKeys(batch_list_in)) =>
        (raised = "None" /\ batch_list = batch_list_in)

C9_Witness ==
    /\ pc = "sort_batches" /\ calls = 2
    /\ order_by = <<Sorter(<<"a">>, TRUE), Sorter(<<"a">>, FALSE)>>
    /\ Len(batch_list) = 3
    /\ AllHaveKeys(batch_list_in)
    /\ batch_list[3].metadata[<<"a">>] = None
    /\ batch_list[1].metadata[<<"a">>] = batch_list[2].metadata[<<"a">>]
    /\ batch_list[1].data < batch_list[2].data
    /\ batch_list[1].data # 1
    /\ batch_list = batch_list_in

-----------------------------------------------------------------------------
(* Batch._set_id.                                                          *)
(* values is [datasource |-> values["datasource"].name,                    *)
(*            data_asset |-> values["data_asset"].name,                    *)
(*            options    |-> values["batch_request"].options], the options *)
(* being the dict's items in iteration order: a sequence of                *)
(* [key |-> str, value |-> v] with distinct keys, v one of                 *)
(* [type |-> "int", int |-> n], [type |-> "str", str |-> str],             *)
(* [type |-> "NoneType"].                                                  *)

IntValue(n) == [type |-> "int", int |-> n]

StrValue(s) == [type |-> "str", str |-> s]

NoneValue == [type |-> "NoneType"]

DigitChars == <<"0", "1", "2", "3", "4", "5", "6", "7", "8", "9">>

RECURSIVE NatToStr(_)
NatToStr(n) ==
    IF n < 10 THEN <<DigitChars[n + 1]>>
    ELSE NatToStr(n \div 10) \o <<DigitChars[(n % 10) + 1]>>

\* f"{value}": str(value)
Format(v) ==
    IF v.type = "str" THEN v.str
    ELSE IF v.type = "int" THEN
        IF v.int < 0 THEN <<"-">> \o NatToStr(-v.int) ELSE NatToStr(v.int)
    ELSE <<"N", "o", "n", "e">>

\* sep.join(parts)
RECURSIVE Join(_, _)
Join(sep, parts) ==
    IF Len(parts) = 0 THEN << >>
    ELSE IF Len(parts) = 1 THEN parts[1]
    ELSE parts[1] \o sep \o Join(sep, Tail(parts))

PATH == <<"p", "a", "t", "h">>

\* A faulty loop: the "path" option is not left out.
RECURSIVE options_list_keep_path(_, _, _)
options_list_keep_path(options, idx, options_list) ==
    IF idx > Len(options) THEN options_list
    ELSE options_list_keep_path(options, idx + 1,
             Append(options_list,
                    options[idx].key \o <<"_">> \o Format(options[idx].value)))

set_id_keep_path(v) ==
    Join(<<"-">>, <<v.datasource, v.data_asset>> \o options_list_keep_path(v.options, 1, << >>))

\* The loop over values["batch_request"].options.items().
RECURSIVE options_list_from(_, _, _)
options_list_from(options, idx, options_list) ==
    IF idx > Len(options) THEN options_list
    ELSE options_list_from(options, idx + 1,
             IF options[idx].key # PATH
             THEN Append(options_list,
                         options[idx].key \o <<"_">> \o Format(options[idx].value))
             ELSE options_list)

set_id(v) ==
    Join(<<"-">>, <<v.datasource, v.data_asset>> \o options_list_from(v.options, 1, << >>))

MaxOptions == 2

DatasourceNames == {<<"d", "s">>, <<"a">>, <<"a", "-", "b">>}

AssetNames == {<<"a", "s", "s", "e", "t">>, <<"c">>, <<"b", "-", "c">>}

OptionKeys == {PATH, <<"y", "e", "a", "r">>, <<"y">>, <<"y", "_", "1">>}

OptionValues ==
    {IntValue(2020), IntValue(1), StrValue(<<"1">>), StrValue(<<"/", "x">>),
     StrValue(<<"1", "_", "1">>), NoneValue}

OptionItems == {[key |-> k, value |-> v] : k \in OptionKeys, v \in OptionValues}

\* dicts: no key twice
BatchRequestOptions ==
    {o \in SeqsUpTo(OptionItems, MaxOptions) :
        \A i, j \in 1..Len(o) : o[i].key = o[j].key => i = j}

BatchValues ==
    [datasource : DatasourceNames, data_asset : AssetNames, options : BatchRequestOptions]

InitBatch ==
    /\ pc = "start"
    /\ sorters = Idle /\ order_by = Idle /\ order_by_in = Idle
    /\ result = Idle /\ raised = "None"
    /\ batch_list = Idle /\ batch_list_in = Idle /\ calls = 0
    /\ values \in BatchValues
    /\ batch_id = << >>
    /\ passes = Idle /\ DatasourceIdle

\* Batch(...): the root validator sets values["id"].
NewBatch ==
    /\ pc = "start"
    /\ batch_id' = set_id(values)
    /\ pc' = "Batch"
    /\ UNCHANGED <<sorters, order_by, order_by_in, result, raised, batch_list,
                   batch_list_in, calls, values,
                   passes, datasource_vars>>

NextBatch == NewBatch

SpecBatch == InitBatch /\ [][NextBatch]_vars

-----------------------------------------------------------------------------
(* Claims about Batch._set_id.                                             *)

WithoutPath(options) == SelectSeq(options, LAMBDA o : o.key # PATH)

InsertAt(s, p, x) == SubSeq(s, 1, p) \o <<x>> \o SubSeq(s, p + 1, Len(s))

RECURSIVE Components(_)
Components(options) ==
    IF options = << >> THEN << >>
    ELSE <<"-">> \o Head(options).key \o <<"_">> \o Format(Head(options).value)
             \o Components(Tail(options))

\* C8: the id is the datasource name, "-", the asset name and, for every
\* options entry whose key is not "path", in iteration order, "-" followed
\* by "{key}_{value}"; with no such entry it is "source-asset"; the id does
\* not depend on the presence or the value of the "path" option.
C8_BatchId ==
    pc = "Batch" =>
        /\ batch_id = values.datasource \o <<"-">> \o values.data_asset
                          \o Components(WithoutPath(values.options))
        /\ WithoutPath(values.options) = << >> =>
               batch_id = values.datasource \o <<"-">> \o values.data_asset
        /\ batch_id = set_id([values EXCEPT !.options = WithoutPath(@)])
        /\ \A p \in 0..Len(WithoutPath(values.options)) : \A v \in OptionValues :
               batch_id = set_id([values EXCEPT !.options =
                              InsertAt(WithoutPath(@), p, [key |-> PATH, value |-> v])])

C8_Witness ==
    /\ pc = "Batch"
    /\ values.datasource = <<"d", "s">>
    /\ values.data_asset = <<"a", "s", "s", "e", "t">>
    /\ values.options = <<[key |-> <<"y", "e", "a", "r">>, value |-> IntValue(2020)],
                          [key |-> PATH, value |-> StrValue(<<"/", "x">>)]>>
    /\ batch_id = <<"d", "s", "-", "a", "s", "s", "e", "t", "-",
                    "y", "e", "a", "r", "_", "2", "0", "2", "0">>

\* What a batch comes from: the two names and the options other than "path".
Origin(v) == <<v.datasource, v.data_asset, WithoutPath(v.options)>>

\* C14: the id identifies the batch's origin: two batches whose datasource
\* name, asset name or non-"path" options differ have different ids, also
\* when names, keys or values contain "-" or "_".
C14_IdUnique ==
    pc = "Batch" =>
        \A other \in BatchValues :
            Origin(other) # Origin(values) => set_id(other) # batch_id

-----------------------------------------------------------------------------
(* Datasource.add_asset and Datasource.get_asset.                          *)
(* A DataAsset is [name |-> str, id |-> which object it is]; the assets    *)
(* dict is the sequence of its items [key |-> name, value |-> asset] in    *)
(* iteration (insertion) order.                                            *)

MaxAdds == 3

AssetIds == {1, 2}

DataAssets == [name : AssetNames, id : AssetIds]

DictKeys(d) == [i \in 1..Len(d) |-> d[i].key]

DictContains(d, k) == \E i \in 1..Len(d) : d[i].key = k

\* d[k]
DictGetItem(d, k) == d[CHOOSE i \in 1..Len(d) : d[i].key = k].value

\* d[k] = v: an existing key keeps its place, a new one goes last.
DictSetItem(d, k, v) ==
    IF DictContains(d, k)
    THEN [i \in 1..Len(d) |-> IF d[i].key = k THEN [key |-> k, value |-> v] ELSE d[i]]
    ELSE Append(d, [key |-> k, value |-> v])

InitDatasource ==
    /\ pc = "start"
    /\ sorters = Idle /\ order_by = Idle /\ order_by_in = Idle
    /\ result = Idle /\ raised = "None"
    /\ batch_list = Idle /\ batch_list_in = Idle /\ calls = 0
    /\ values = Idle /\ batch_id = Idle /\ passes = Idle
    /\ assets = << >> /\ assets_in = << >>
    /\ added = << >>
    /\ asset_name = Idle /\ message = Idle

\* A faulty add_asset: the asset is registered before its connection is tested.
add_asset_register_first(asset, connects) ==
    /\ Len(added) < MaxAdds
    /\ assets_in' = assets
    /\ assets' = DictSetItem(assets, asset.name, asset)
    /\ raised' = IF connects THEN "None" ELSE "TestConnectionError"
    /\ result' = IF connects THEN asset ELSE Idle
    /\ added' = Append(added, [asset |-> asset,
                               raised |-> IF connects THEN "None"
                                          ELSE "TestConnectionError"])
    /\ asset_name' = Idle /\ message' = Idle
    /\ pc' = "add_asset"
    /\ UNCHANGED <<sorters, order_by, order_by_in, batch_list, batch_list_in,
                   calls, values, batch_id, passes>>

\* add_asset(asset): asset.test_connection() raises (connects is FALSE) before
\* self.assets[asset.name] = asset is reached, or returns.
add_asset(asset, connects) ==
    /\ Len(added) < MaxAdds
    /\ assets_in' = assets
    /\ IF connects
       THEN /\ assets' = DictSetItem(assets, asset.name, asset)
            /\ raised' = "None"
            /\ result' = asset
       ELSE /\ assets' = assets
            /\ raised' = "TestConnectionError"
            /\ result' = Idle
    /\ added' = Append(added, [asset |-> asset,
                               raised |-> IF connects THEN "None"
                                          ELSE "TestConnectionError"])
    /\ asset_name' = Idle /\ message' = Idle
    /\ pc' = "add_asset"
    /\ UNCHANGED <<sorters, order_by, order_by_in, batch_list, batch_list_in,
                   calls, values, batch_id, passes>>

AddAsset == \E asset \in DataAssets : \E connects \in BOOLEAN : add_asset(asset, connects)

\* get_asset(asset_name): self.assets[asset_name], a KeyError becoming a
\* LookupError whose message lists list(self.assets.keys()).
get_asset(name) ==
    /\ asset_name' = name
    /\ IF DictContains(assets, name)
       THEN /\ result' = DictGetItem(assets, name)
            /\ raised' = "None"
            /\ message' = Idle
       ELSE /\ result' = Idle
            /\ raised' = "LookupError"
            /\ message' = DictKeys(assets)
    /\ assets_in' = assets
    /\ pc' = "get_asset"
    /\ UNCHANGED <<sorters, order_by, order_by_in, batch_list, batch_list_in,
                   calls, values, batch_id, passes, assets, added>>

GetAsset == \E name \in AssetNames : get_asset(name)

NextDatasource == AddAsset \/ GetAsset

SpecDatasource == InitDatasource /\ [][NextDatasource]_vars

-----------------------------------------------------------------------------
(* Claims about the datasource's assets.                                   *)

\* The add_asset calls that returned normally for an asset of this name.
AddedUnder(name) ==
    {i \in 1..Len(added) : added[i].raised = "None" /\ added[i].asset.name = name}

AddedNames ==
    {added[i].asset.name : i \in {j \in 1..Len(added) : added[j].raised = "None"}}

Last(S) == CHOOSE i \in S : \A j \in S : j <= i

\* C11: get_asset(name) returns the asset most recently added under that
\* name by an add_asset call that returned; for a name nothing was added
\* under it raises LookupError with a message listing exactly the names
\* registered; an add_asset call whose test_connection raises leaves the
\* assets mapping unchanged.
C11_GetAssetAfterAdds ==
    /\ pc = "get_asset" =>
           IF AddedUnder(asset_name) # {}
           THEN raised = "None" /\ result = added[Last(AddedUnder(asset_name))].asset
           ELSE /\ raised = "LookupError"
                /\ {message[i] : i \in 1..Len(message)} = AddedNames
                /\ Len(message) = Cardinality(AddedNames)
                /\ message = DictKeys(assets)
    /\ (pc = "add_asset" /\ raised # "None") =>
           (assets = assets_in /\ AddedNames = {assets[i].key : i \in 1..Len(assets)})

C11_Witness ==
    /\ pc = "get_asset"
    /\ raised = "None"
    /\ Len(added) = 3
    /\ \A i \in 1..3 : added[i].asset.name = asset_name
    /\ added[1].raised = "None" /\ added[1].asset.id = 1
    /\ added[2].raised = "None" /\ added[2].asset.id = 2
    /\ added[3].raised # "None" /\ added[3].asset.id = 1
    /\ result.id = 2

====
